---- MODULE Spec2Model ----
(***************************************************************************)
(* Marketplace purchase transaction of the game backend API.               *)
(*                                                                         *)
(* The model follows market_buy (src/api/app.py and src/capstone/api/      *)
(* app.py hold the same handler body) statement by statement: every await  *)
(* on the connection is one step of a request, so requests interleave      *)
(* between any two SQL statements.  The store is PostgreSQL at READ        *)
(* COMMITTED: a transaction's writes are private until COMMIT, row locks   *)
(* taken by SELECT ... FOR UPDATE / UPDATE are held until the transaction  *)
(* ends, and INSERT ... ON CONFLICT DO NOTHING waits for an in-flight      *)
(* insert of the same key and is a no-op when the key is committed.        *)
(***************************************************************************)
EXTENDS Integers, Sequences, FiniteSets, TLC

(* ------------------------------- bounds -------------------------------- *)
NReq == 2            \* market_buy requests issued in one behaviour
MaxChars == 3        \* character rows ever created
MaxEvents == 1       \* market events processed
NConfirm == 2        \* confirm_password_reset requests issued in one behaviour
NCreate == 2         \* create_character requests issued in one behaviour
MaxResets == 2       \* reset tokens drawn
MaxNow == 120        \* last minute on the clock

(* --------------------------- input domains ----------------------------- *)
Reqs == 1..NReq
Users == {1, 2}
NoToken == 0                       \* X-Request-Id header absent
Tokens == {1, 2}
Settlements == {1}
Items == {1, 2}
MarketKeys == Settlements \X Items
QuantityInputs == {0, 1, 2}
NewPriceHalves == {5}                \* "new" price of an event, in halves: 2.5

(* ------------------------- program constants --------------------------- *)
\* DefaultMoney, SeedPrice and SeedQty stand for the schema default and the seed
\* rows of the database, which the handlers only read
MaxQuantity == 10000
MaxNewPrice == 1000000
CharLimit == 5
FullDurability == 100
ResetTokenTtlMin == 60             \* RESET_TOKEN_TTL_MIN
DefaultMoney == 3                  \* characters.money column default
SeedPrice == 1                     \* market seed rows
SeedQty == 2

NoOrder == [user_id |-> 0, item_id |-> 0, quantity |-> 0, price |-> 0,
            completed |-> FALSE, present |-> FALSE]
NoChar == 0

VARIABLES
    market,        \* committed market rows: key -> [current_price, qty_available]
    characters,    \* committed character rows in created_at order (index = character_id)
    inventories,   \* committed inventories rows, in insertion order
    orders,        \* committed orders rows: request_id -> row
    events,        \* number of rows of the events table
    req,           \* the market_buy requests: position, inputs, locals, private writes
    users,         \* committed users rows: user_id -> credentials and reset token
    now,           \* the clock read by datetime.now, in minutes
    issued,        \* number of reset tokens drawn so far
    confirms,      \* the confirm_password_reset requests
    creates        \* the create_character requests

\* the state outside the purchase: accounts and the character management requests
accountVars == <<users, now, issued, confirms, creates>>

vars == <<market, characters, inventories, orders, events, req, accountVars>>

(* ------------------------------ helpers -------------------------------- *)
RECURSIVE SumOver(_, _)
\* sum of f[x] over the finite set S
SumOver(S, f) ==
    IF S = {} THEN 0
    ELSE LET x == CHOOSE y \in S : TRUE IN f[x] + SumOver(S \ {x}, f)

\* int(new_price) of a price given in halves: truncation toward zero
IntTrunc(halves) == halves \div 2

Key(r) == <<r.settlement_id, r.item_id>>

Idle == [pc |-> "idle", user_id |-> 0, x_request_id |-> NoToken,
         settlement_id |-> 0, item_id |-> 0, quantity |-> 0,
         stock_qty |-> 0, price |-> 0, wallet |-> NoChar,
         w_order |-> FALSE, w_money |-> {}, w_stock |-> FALSE, w_inv |-> FALSE,
         w_completed |-> FALSE,
         status |-> 0, duplicate |-> FALSE, order_id |-> NoToken, detail |-> ""]

(* --------------------------- store: row locks -------------------------- *)
\* faulty variant: the market row is locked by its UPDATE only
StockPcsFromUpdate == {"credit_inv", "complete", "commit"}

\* positions at which the transaction has the market row locked
StockPcs == {"lock_wallet", "insert_order", "debit_wallet", "debit_stock",
             "credit_inv", "complete", "commit"}
\* positions at which the transaction has the wallet row locked
WalletPcs == {"insert_order", "debit_wallet", "debit_stock", "credit_inv",
              "complete", "commit"}

HoldsStock(i, key) == req[i].pc \in StockPcs /\ Key(req[i]) = key

HoldsChar(i, c) ==
    \/ req[i].pc \in WalletPcs /\ req[i].wallet = c
    \/ c \in req[i].w_money

\* an order row inserted by i and not yet committed
HoldsToken(i, t) == req[i].w_order /\ req[i].x_request_id = t

\* a committed order row updated by i and not yet committed
HoldsOrderRow(i, t) ==
    req[i].w_completed /\ ~req[i].w_order /\ req[i].x_request_id = t

\* faulty variant: the market row is read without FOR UPDATE
StockNeverLocked(i, key) == TRUE

StockFree(i, key) == \A j \in Reqs \ {i} : ~HoldsStock(j, key)
\* faulty variant: the wallet row is read without FOR UPDATE
CharNeverLocked(i, c) == TRUE

CharFree(i, c) == \A j \in Reqs \ {i} : ~HoldsChar(j, c)
TokenFree(i, t) == \A j \in Reqs \ {i} : ~HoldsToken(j, t)
OrderRowFree(i, t) == \A j \in Reqs \ {i} : ~HoldsOrderRow(j, t)

(* ------------------------- store: committed rows ------------------------ *)
CharIds == 1..Len(characters)
Alive(c) == c \in CharIds /\ ~characters[c].deleted
CharsOf(u) == {c \in CharIds : Alive(c) /\ characters[c].user_id = u}

\* faulty variant: ORDER BY created_at DESC
LastChar(u) ==
    IF CharsOf(u) = {} THEN NoChar
    ELSE CHOOSE c \in CharsOf(u) : \A d \in CharsOf(u) : c >= d

\* SELECT ... WHERE user_id=$1 ORDER BY created_at LIMIT 1
FirstChar(u) ==
    IF CharsOf(u) = {} THEN NoChar
    ELSE CHOOSE c \in CharsOf(u) : \A d \in CharsOf(u) : c <= d

(* -------------------------- accounts: users rows ------------------------ *)
Confirms == 1..NConfirm
Creates == 1..NCreate
Passwords == {1, 2}                \* passwords that pass the strength validation
InitialPassword == 1               \* the password given to register
NoResetToken == 0                  \* reset_token IS NULL
ResetTokens == 1..MaxResets        \* values of secrets.token_urlsafe, in drawing order
Null == -1                         \* a NULL timestamp

\* bcrypt.hashpw / bcrypt.checkpw: the hash is checked by recomputation
HashPassword(pw) == <<"bcrypt", pw>>
VerifyPassword(pw, hashed) == hashed = HashPassword(pw)

IdleConfirm == [pc |-> "idle", token |-> NoResetToken, new_password |-> 0,
                now_utc |-> 0, user_id |-> 0, status |-> 0, detail |-> ""]
IdleCreate == [pc |-> "idle", user_id |-> 0, status |-> 0, detail |-> ""]

\* the users rows as register leaves them, and no account request yet
InitAccounts ==
    /\ users = [u \in Users |->
                   [password_hash |-> HashPassword(InitialPassword),
                    reset_token |-> NoResetToken, reset_token_expires |-> Null,
                    last_login |-> Null]]
    /\ now = 0
    /\ issued = 0
    /\ confirms = [i \in Confirms |-> IdleConfirm]
    /\ creates = [i \in Creates |-> IdleCreate]

\* two registered users, each with the starter character of register, and the
\* seeded market rows; no purchase yet
Init ==
    /\ market = [k \in MarketKeys |-> [current_price |-> SeedPrice, qty_available |-> SeedQty]]
    /\ characters = <<[user_id |-> 1, money |-> DefaultMoney, deleted |-> FALSE],
                      [user_id |-> 2, money |-> DefaultMoney, deleted |-> FALSE]>>
    /\ inventories = <<>>
    /\ orders = [t \in Tokens |-> NoOrder]
    /\ events = 0
    /\ req = [i \in Reqs |-> Idle]
    /\ InitAccounts

(* ------------------------------ market_buy ------------------------------ *)
\* the handler returns: only the response is left of the request
Respond(st, dup, oid, det) ==
    [Idle EXCEPT !.pc = "done", !.status = st, !.duplicate = dup, !.order_id = oid,
                 !.detail = det]

\* faulty variant: the quantity is not validated
ValidateIdsOnly(q, item, settlement) ==
    (IF item <= 0 THEN {"item_id"} ELSE {})
    \cup (IF settlement <= 0 THEN {"settlement_id"} ELSE {})

\* InputValidator.validate_market_transaction: the keys of the errors dict
ValidateMarketTransaction(q, item, settlement) ==
    (IF q <= 0 \/ q > MaxQuantity THEN {"quantity"} ELSE {})
    \cup (IF item <= 0 THEN {"item_id"} ELSE {})
    \cup (IF settlement <= 0 THEN {"settlement_id"} ELSE {})

\* the handler is entered: header check and input validation, before any store access
\* (request slots are interchangeable, so they are used in index order)
Start(i) ==
    /\ req[i].pc = "idle"
    /\ \A j \in Reqs : j < i => req[j].pc # "idle"
    /\ \E u \in Users, t \in Tokens \cup {NoToken}, s \in Settlements,
          it \in Items, q \in QuantityInputs :
         LET r == [req[i] EXCEPT !.user_id = u, !.x_request_id = t, !.settlement_id = s,
                                 !.item_id = it, !.quantity = q]
         IN req' = [req EXCEPT ![i] =
                IF t = NoToken
                THEN Respond(400, FALSE, NoToken, "X-Request-Id header required for idempotency")
                ELSE IF ValidateMarketTransaction(q, it, s) # {}
                THEN Respond(422, FALSE, NoToken, "Invalid transaction data")
                ELSE [r EXCEPT !.pc = "lookup"]]
    /\ UNCHANGED <<market, characters, inventories, orders, events, accountVars>>

\* faulty variant: the idempotency lookup never finds the order
LookupMisses(i) ==
    /\ req[i].pc = "lookup"
    /\ req' = [req EXCEPT ![i].pc = "lock_stock"]
    /\ UNCHANGED <<market, characters, inventories, orders, events, accountVars>>

\* faulty variant: WHERE request_id = $1 AND user_id = $2
LookupOwnOrders(i) ==
    /\ req[i].pc = "lookup"
    /\ req' = [req EXCEPT ![i] =
           IF /\ orders[req[i].x_request_id].present
              /\ orders[req[i].x_request_id].user_id = req[i].user_id
           THEN Respond(200, TRUE, req[i].x_request_id, "ok")
           ELSE [req[i] EXCEPT !.pc = "lock_stock"]]
    /\ UNCHANGED <<market, characters, inventories, orders, events, accountVars>>

\* faulty variant: the lookup runs inside the transaction, after the stock row lock
LookupAfterLock(i) ==
    /\ req[i].pc = "lookup"
    /\ StockFree(i, Key(req[i]))
    /\ req' = [req EXCEPT ![i] =
           IF orders[req[i].x_request_id].present
           THEN Respond(200, TRUE, req[i].x_request_id, "ok")
           ELSE [req[i] EXCEPT !.pc = "lock_stock"]]
    /\ UNCHANGED <<market, characters, inventories, orders, events, accountVars>>

\* SELECT * FROM orders WHERE request_id = $1 (committed rows only), then BEGIN
Lookup(i) ==
    /\ req[i].pc = "lookup"
    /\ LET r == req[i]
           existing_order == orders[r.x_request_id]
       IN req' = [req EXCEPT ![i] =
              IF existing_order.present
              THEN Respond(200, TRUE, r.x_request_id, "ok")
              ELSE [r EXCEPT !.pc = "lock_stock"]]
    /\ UNCHANGED <<market, characters, inventories, orders, events, accountVars>>

\* faulty variant: the quantity is left out of the price
UnitPriceOnly(current_price, quantity) == current_price

\* price = stock["current_price"] * data.quantity
TotalPrice(current_price, quantity) == current_price * quantity

\* faulty variant: the stock check is left out
LockStockUnchecked(i) ==
    /\ req[i].pc = "lock_stock"
    /\ StockFree(i, Key(req[i]))
    /\ req' = [req EXCEPT ![i].pc = "lock_wallet",
                          ![i].stock_qty = market[Key(req[i])].qty_available,
                          ![i].price = TotalPrice(market[Key(req[i])].current_price,
                                                  req[i].quantity)]
    /\ UNCHANGED <<market, characters, inventories, orders, events, accountVars>>

\* SELECT current_price, qty_available FROM market ... FOR UPDATE, and the stock check
LockStock(i) ==
    /\ req[i].pc = "lock_stock"
    /\ StockFree(i, Key(req[i]))
    /\ LET r == req[i]
           found == Key(r) \in DOMAIN market
       IN req' = [req EXCEPT ![i] =
              IF ~found \/ market[Key(r)].qty_available < r.quantity
              THEN Respond(400, FALSE, NoToken, "Out of stock")
              ELSE [r EXCEPT !.pc = "lock_wallet",
                             !.stock_qty = market[Key(r)].qty_available,
                             !.price = TotalPrice(market[Key(r)].current_price, r.quantity)]]
    /\ UNCHANGED <<market, characters, inventories, orders, events, accountVars>>

\* faulty variant: "if wallet and wallet.money < price", a missing row passes
LockWalletRowOptional(i) ==
    /\ req[i].pc = "lock_wallet"
    /\ LET r == req[i]
           w == FirstChar(r.user_id)
       IN /\ w # NoChar => CharFree(i, w)
          /\ req' = [req EXCEPT ![i] =
                 IF w # NoChar /\ characters[w].money < r.price
                 THEN Respond(400, FALSE, NoToken, "Insufficient funds")
                 ELSE [r EXCEPT !.pc = "insert_order", !.wallet = w]]
    /\ UNCHANGED <<market, characters, inventories, orders, events, accountVars>>

\* faulty variant: the funds check is left out
LockWalletUnchecked(i) ==
    /\ req[i].pc = "lock_wallet"
    /\ FirstChar(req[i].user_id) # NoChar
    /\ CharFree(i, FirstChar(req[i].user_id))
    /\ req' = [req EXCEPT ![i].pc = "insert_order",
                          ![i].wallet = FirstChar(req[i].user_id)]
    /\ UNCHANGED <<market, characters, inventories, orders, events, accountVars>>

\* SELECT character_id, money FROM characters ... LIMIT 1 FOR UPDATE, and the funds check
LockWallet(i) ==
    /\ req[i].pc = "lock_wallet"
    /\ LET r == req[i]
           w == FirstChar(r.user_id)
       IN /\ w # NoChar => CharFree(i, w)
          /\ req' = [req EXCEPT ![i] =
                 IF w = NoChar \/ characters[w].money < r.price
                 THEN Respond(400, FALSE, NoToken, "Insufficient funds")
                 ELSE [r EXCEPT !.pc = "insert_order", !.wallet = w]]
    /\ UNCHANGED <<market, characters, inventories, orders, events, accountVars>>

\* faulty variant: ON CONFLICT (request_id) DO UPDATE, the row is overwritten
InsertOrderOverwrites(i) ==
    /\ req[i].pc = "insert_order"
    /\ TokenFree(i, req[i].x_request_id)
    /\ req' = [req EXCEPT ![i].pc = "debit_wallet", ![i].w_order = TRUE]
    /\ UNCHANGED <<market, characters, inventories, orders, events, accountVars>>

\* INSERT INTO orders ... ON CONFLICT (request_id) DO NOTHING: waits for an in-flight
\* insert of the same request_id; inserts nothing when the request_id is committed
InsertOrder(i) ==
    /\ req[i].pc = "insert_order"
    /\ TokenFree(i, req[i].x_request_id)
    /\ req' = [req EXCEPT ![i].pc = "debit_wallet",
                          ![i].w_order = ~orders[req[i].x_request_id].present]
    /\ UNCHANGED <<market, characters, inventories, orders, events, accountVars>>

\* the INSERT raises: the except branch returns from inside the transaction block,
\* which ends the transaction with nothing written
InsertOrderRaises(i) ==
    /\ req[i].pc = "insert_order"
    /\ req' = [req EXCEPT ![i] = Respond(200, TRUE, req[i].x_request_id, "ok")]
    /\ UNCHANGED <<market, characters, inventories, orders, events, accountVars>>

\* faulty variant: the UPDATE without its WHERE clause
AllCharacterRows(u) == {c \in CharIds : Alive(c)}

\* the rows matched by UPDATE characters SET money = money - $1 WHERE user_id=$2
DebitRows(u) == CharsOf(u)

DebitWallet(i) ==
    /\ req[i].pc = "debit_wallet"
    /\ \A c \in DebitRows(req[i].user_id) : CharFree(i, c)
    /\ req' = [req EXCEPT ![i].pc = "debit_stock",
                          ![i].w_money = DebitRows(req[i].user_id)]
    /\ UNCHANGED <<market, characters, inventories, orders, events, accountVars>>

\* UPDATE market SET qty_available = qty_available - $1 ...
DebitStock(i) ==
    /\ req[i].pc = "debit_stock"
    /\ StockFree(i, Key(req[i]))
    /\ req' = [req EXCEPT ![i].pc = "credit_inv", ![i].w_stock = TRUE]
    /\ UNCHANGED <<market, characters, inventories, orders, events, accountVars>>

\* faulty variant: the inventory INSERT is left out
CreditInventorySkipped(i) ==
    /\ req[i].pc = "credit_inv"
    /\ req' = [req EXCEPT ![i].pc = "complete"]
    /\ UNCHANGED <<market, characters, inventories, orders, events, accountVars>>

\* INSERT INTO inventories(character_id, item_id, quantity, durability_current)
CreditInventory(i) ==
    /\ req[i].pc = "credit_inv"
    /\ req' = [req EXCEPT ![i].pc = "complete", ![i].w_inv = TRUE]
    /\ UNCHANGED <<market, characters, inventories, orders, events, accountVars>>

\* UPDATE orders SET completed = TRUE WHERE request_id = $1: the row is the one this
\* transaction inserted, or the committed row of the same request_id
CompleteOrder(i) ==
    /\ req[i].pc = "complete"
    /\ LET r == req[i]
           committed == orders[r.x_request_id].present
       IN /\ (~r.w_order /\ committed) => OrderRowFree(i, r.x_request_id)
          /\ req' = [req EXCEPT ![i].pc = "commit",
                                ![i].w_completed = r.w_order \/ committed]
    /\ UNCHANGED <<market, characters, inventories, orders, events, accountVars>>

(* --------------------- transaction end: COMMIT / ROLLBACK --------------- *)
\* faulty variant: the order row is committed as it was inserted, completed = FALSE
PendingOrderRow(r) ==
    [user_id |-> r.user_id, item_id |-> r.item_id, quantity |-> r.quantity,
     price |-> r.price, completed |-> FALSE, present |-> TRUE]

OrderRow(r) ==
    [user_id |-> r.user_id, item_id |-> r.item_id, quantity |-> r.quantity,
     price |-> r.price, completed |-> r.w_completed, present |-> TRUE]

InventoryRow(r) ==
    [character_id |-> r.wallet, item_id |-> r.item_id, quantity |-> r.quantity,
     durability_current |-> FullDurability]

\* the committed tables with the private writes of r applied
Applied(r) ==
    [market |-> IF r.w_stock
                THEN [market EXCEPT ![Key(r)].qty_available = @ - r.quantity]
                ELSE market,
     characters |-> [c \in CharIds |->
                        IF c \in r.w_money
                        THEN [characters[c] EXCEPT !.money = @ - r.price]
                        ELSE characters[c]],
     inventories |-> IF r.w_inv THEN Append(inventories, InventoryRow(r)) ELSE inventories,
     orders |-> IF r.w_order THEN [orders EXCEPT ![r.x_request_id] = OrderRow(r)]
                ELSE IF r.w_completed
                THEN [orders EXCEPT ![r.x_request_id].completed = TRUE]
                ELSE orders]

Unapplied ==
    [market |-> market, characters |-> characters, inventories |-> inventories,
     orders |-> orders]

\* leaving "async with conn.transaction()" normally: COMMIT
CommitTables(r) == Applied(r)

\* faulty variant: the statements run outside a transaction block, so an exception
\* undoes nothing
RollbackKeepsWrites(r) == Applied(r)

\* leaving "async with conn.transaction()" by an exception: ROLLBACK
RollbackTables(r) == Unapplied

Commit(i) ==
    /\ req[i].pc = "commit"
    /\ LET t == CommitTables(req[i])
       IN /\ market' = t.market
          /\ characters' = t.characters
          /\ inventories' = t.inventories
          /\ orders' = t.orders
    /\ req' = [req EXCEPT ![i] = Respond(200, FALSE, req[i].x_request_id, "ok")]
    /\ UNCHANGED <<events, accountVars>>

\* a statement other than the order INSERT raises a store error: the exception leaves
\* the transaction block and the database exception handler answers 500
FaultPcs == {"lookup", "lock_stock", "lock_wallet", "debit_wallet", "debit_stock",
             "credit_inv", "complete", "commit"}

StoreFault(i) ==
    /\ req[i].pc \in FaultPcs
    /\ LET t == RollbackTables(req[i])
       IN /\ market' = t.market
          /\ characters' = t.characters
          /\ inventories' = t.inventories
          /\ orders' = t.orders
    /\ req' = [req EXCEPT ![i] = Respond(500, FALSE, NoToken, "Database operation failed")]
    /\ UNCHANGED <<events, accountVars>>

(* ------------------------- other writers of the rows -------------------- *)
\* register's starter character / create_character: a row with the column defaults
CreateCharacter(u) ==
    /\ Len(characters) < MaxChars
    /\ Cardinality(CharsOf(u)) < CharLimit
    /\ characters' = Append(characters,
                            [user_id |-> u, money |-> DefaultMoney, deleted |-> FALSE])
    /\ UNCHANGED <<market, inventories, orders, events, req, accountVars>>

\* a character_id whose row is gone (the serial is not reused)
DeletedRow == [user_id |-> 0, money |-> 0, deleted |-> TRUE]

\* delete_character: DELETE waits for the row lock; inventories rows cascade
DeleteCharacter(u, c) ==
    /\ Alive(c)
    /\ characters[c].user_id = u
    /\ \A j \in Reqs : ~HoldsChar(j, c)
    /\ characters' = [characters EXCEPT ![c] = DeletedRow]
    /\ inventories' = SelectSeq(inventories, LAMBDA row : row.character_id # c)
    /\ UNCHANGED <<market, orders, events, req, accountVars>>

\* InputValidator.validate_market_event, the price part (new_price in halves)
ValidNewPrice(halves) == ~(halves <= 0 \/ halves > 2 * MaxNewPrice)

\* faulty variant: the price UPDATE does not wait for the row lock
ProcessMarketEventNoWait(key, halves) ==
    /\ events < MaxEvents
    /\ ValidNewPrice(halves)
    /\ events' = events + 1
    /\ market' = [market EXCEPT ![key].current_price = IntTrunc(halves)]
    /\ UNCHANGED <<characters, inventories, orders, req, accountVars>>

\* process_market_event with one price change: the UPDATE waits for the row lock
ProcessMarketEvent(key, halves) ==
    /\ events < MaxEvents
    /\ ValidNewPrice(halves)
    /\ \A j \in Reqs : ~HoldsStock(j, key)
    /\ events' = events + 1
    /\ market' = [market EXCEPT ![key].current_price = IntTrunc(halves)]
    /\ UNCHANGED <<characters, inventories, orders, req, accountVars>>

Next ==
    \/ \E i \in Reqs : Start(i)
    \/ \E i \in Reqs : Lookup(i)
    \/ \E i \in Reqs : LockStock(i)
    \/ \E i \in Reqs : LockWallet(i)
    \/ \E i \in Reqs : InsertOrder(i)
    \/ \E i \in Reqs : InsertOrderRaises(i)
    \/ \E i \in Reqs : DebitWallet(i)
    \/ \E i \in Reqs : DebitStock(i)
    \/ \E i \in Reqs : CreditInventory(i)
    \/ \E i \in Reqs : CompleteOrder(i)
    \/ \E i \in Reqs : Commit(i)
    \/ \E i \in Reqs : StoreFault(i)
    \/ \E u \in Users : CreateCharacter(u)
    \/ \E u \in Users, c \in CharIds : DeleteCharacter(u, c)
    \/ \E key \in MarketKeys, h \in NewPriceHalves : ProcessMarketEvent(key, h)

Spec == Init /\ [][Next]_vars

\* the committed state after user 1 bought one unit of item 1 with token 1 and the
\* request was answered: the rows a finished purchase leaves behind
InitAfterPurchase ==
    /\ market = [k \in MarketKeys |->
                    [current_price |-> SeedPrice,
                     qty_available |-> IF k = <<1, 1>> THEN SeedQty - 1 ELSE SeedQty]]
    /\ characters = <<[user_id |-> 1, money |-> DefaultMoney - SeedPrice, deleted |-> FALSE],
                      [user_id |-> 2, money |-> DefaultMoney, deleted |-> FALSE]>>
    /\ inventories = <<[character_id |-> 1, item_id |-> 1, quantity |-> 1,
                        durability_current |-> FullDurability]>>
    /\ orders = [t \in Tokens |->
                    IF t = 1 THEN [user_id |-> 1, item_id |-> 1, quantity |-> 1,
                                   price |-> SeedPrice, completed |-> TRUE, present |-> TRUE]
                    ELSE NoOrder]
    /\ events = 0
    /\ req = [i \in Reqs |-> Idle]
    /\ InitAccounts

\* requests issued after a first purchase has completed
SpecReplay == InitAfterPurchase /\ [][Next]_vars

(* ------------------------------ scheduling ----------------------------- *)
\* the next statement of request i, when the store lets it run
Proceed(i) ==
    \/ Lookup(i)
    \/ LockStock(i)
    \/ LockWallet(i)
    \/ InsertOrder(i)
    \/ DebitWallet(i)
    \/ DebitStock(i)
    \/ CreditInventory(i)
    \/ CompleteOrder(i)
    \/ Commit(i)

\* the market_buy requests alone: the steps at which a request arrives, runs its next
\* statement or meets a store error (character management and market events hold
\* no lock between steps)
NextPurchases ==
    \/ \E i \in Reqs : Start(i)
    \/ \E i \in Reqs : Proceed(i)
    \/ \E i \in Reqs : InsertOrderRaises(i)
    \/ \E i \in Reqs : StoreFault(i)

\* the event loop resumes every coroutine whose awaited statement can complete
SpecFair == Init /\ [][NextPurchases]_vars /\ \A i \in Reqs : WF_vars(Proceed(i))

(* ------------------------- a market without item 2 --------------------- *)
\* the (settlement, item) pairs that have a market row
ListedKeys == {k \in MarketKeys : k[2] = 1}

\* as Init, but the market table has no row for item 2, which requests still name
InitUnlisted ==
    /\ market = [k \in ListedKeys |-> [current_price |-> SeedPrice, qty_available |-> SeedQty]]
    /\ characters = <<[user_id |-> 1, money |-> DefaultMoney, deleted |-> FALSE],
                      [user_id |-> 2, money |-> DefaultMoney, deleted |-> FALSE]>>
    /\ inventories = <<>>
    /\ orders = [t \in Tokens |-> NoOrder]
    /\ events = 0
    /\ req = [i \in Reqs |-> Idle]
    /\ InitAccounts

SpecUnlisted == InitUnlisted /\ [][Next]_vars

(* ------------------- registration of the capstone revision -------------- *)
\* two users registered by register of src/capstone/api/app.py, which inserts the
\* users row only: no characters row exists
InitCapstone ==
    /\ market = [k \in MarketKeys |-> [current_price |-> SeedPrice, qty_available |-> SeedQty]]
    /\ characters = <<>>
    /\ inventories = <<>>
    /\ orders = [t \in Tokens |-> NoOrder]
    /\ events = 0
    /\ req = [i \in Reqs |-> Idle]
    /\ InitAccounts

SpecCapstone == InitCapstone /\ [][Next]_vars

(* ---------------------------- create_character ------------------------- *)
NameLengths == {2, 3}              \* len(name) of the inputs
StatInputs == {<<1, 1, 1, 1, 5>>, <<1, 1, 1, 1, 1>>, <<1, 1, 1, 0, 6>>}

\* the validation_errors list of create_character, as a set
ValidateCharacterData(name_len, stats) ==
    (IF name_len < 3 \/ name_len > 20 THEN {"name"} ELSE {})
    \cup (IF stats[1] + stats[2] + stats[3] + stats[4] + stats[5] # 9 THEN {"total"} ELSE {})
    \cup (IF \E n \in 1..5 : stats[n] < 1 \/ stats[n] > 5 THEN {"stat"} ELSE {})

CreateRespond(st, det) == [IdleCreate EXCEPT !.pc = "done", !.status = st, !.detail = det]

\* the handler is entered: validation of name and stats, before any store access
StartCreate(i) ==
    /\ creates[i].pc = "idle"
    /\ \A j \in Creates : j < i => creates[j].pc # "idle"
    /\ \E u \in Users, name_len \in NameLengths, stats \in StatInputs :
         creates' = [creates EXCEPT ![i] =
             IF ValidateCharacterData(name_len, stats) # {}
             THEN CreateRespond(422, "Invalid character data")
             ELSE [creates[i] EXCEPT !.pc = "count", !.user_id = u]]
    /\ UNCHANGED <<market, characters, inventories, orders, events, req,
                   users, now, issued, confirms>>

\* if char_count >= 5
AtLimit(char_count) == char_count >= CharLimit

\* SELECT COUNT(*) FROM characters WHERE user_id = $1, and the limit check
CountCharacters(i) ==
    /\ creates[i].pc = "count"
    /\ LET char_count == Cardinality(CharsOf(creates[i].user_id))
       IN creates' = [creates EXCEPT ![i] =
              IF AtLimit(char_count)
              THEN CreateRespond(400, "Maximum 5 characters per account")
              ELSE [creates[i] EXCEPT !.pc = "check_name"]]
    /\ UNCHANGED <<market, characters, inventories, orders, events, req,
                   users, now, issued, confirms>>

\* SELECT character_id FROM characters WHERE user_id = $1 AND name = $2: the requests
\* carry pairwise different names, so no row is found
CheckName(i) ==
    /\ creates[i].pc = "check_name"
    /\ creates' = [creates EXCEPT ![i].pc = "insert"]
    /\ UNCHANGED <<market, characters, inventories, orders, events, req,
                   users, now, issued, confirms>>

\* INSERT INTO characters(...) RETURNING ...: the money is the column default
InsertCharacter(i) ==
    /\ creates[i].pc = "insert"
    /\ characters' = Append(characters, [user_id |-> creates[i].user_id,
                                         money |-> DefaultMoney, deleted |-> FALSE])
    /\ creates' = [creates EXCEPT ![i] = CreateRespond(200, "ok")]
    /\ UNCHANGED <<market, inventories, orders, events, req, users, now, issued, confirms>>

\* user 1 of the capstone revision has created CharLimit - 1 characters
InitCharacters ==
    /\ market = [k \in MarketKeys |-> [current_price |-> SeedPrice, qty_available |-> SeedQty]]
    /\ characters = [n \in 1..(CharLimit - 1) |->
                        [user_id |-> 1, money |-> DefaultMoney, deleted |-> FALSE]]
    /\ inventories = <<>>
    /\ orders = [t \in Tokens |-> NoOrder]
    /\ events = 0
    /\ req = [i \in Reqs |-> Idle]
    /\ InitAccounts

NextCharacters ==
    \/ \E i \in Creates : StartCreate(i)
    \/ \E i \in Creates : CountCharacters(i)
    \/ \E i \in Creates : CheckName(i)
    \/ \E i \in Creates : InsertCharacter(i)
    \/ \E u \in Users, c \in CharIds : DeleteCharacter(u, c)

\* character management next to no purchase
SpecCharacters == InitCharacters /\ [][NextCharacters]_vars

(* ------------------------ login and password reset ---------------------- *)
UnknownEmail == 0                  \* an email that no users row carries
Emails == Users \cup {UnknownEmail}  \* a registered email is named by its user_id

\* the clock advances (it is observed one token lifetime apart)
Tick ==
    /\ now + ResetTokenTtlMin <= MaxNow
    /\ now' = now + ResetTokenTtlMin
    /\ UNCHANGED <<market, characters, inventories, orders, events, req,
                   users, issued, confirms, creates>>

\* request_password_reset for a well-formed email: a new token is drawn, then
\* UPDATE users SET reset_token=$1, reset_token_expires=$2 WHERE email=$3
RequestPasswordReset(e) ==
    /\ issued < MaxResets
    /\ issued' = issued + 1
    /\ users' = IF e \in Users
                THEN [users EXCEPT ![e].reset_token = issued + 1,
                                   ![e].reset_token_expires = now + ResetTokenTtlMin]
                ELSE users
    /\ UNCHANGED <<market, characters, inventories, orders, events, req,
                   now, confirms, creates>>

ConfirmRespond(st, det) == [IdleConfirm EXCEPT !.pc = "done", !.status = st, !.detail = det]

\* confirm_password_reset is entered: the password strength validation accepts the
\* new password or not, and the clock is read, before any store access
StartConfirm(i) ==
    /\ confirms[i].pc = "idle"
    /\ \A j \in Confirms : j < i => confirms[j].pc # "idle"
    /\ \E tok \in ResetTokens, pw \in Passwords, password_error \in BOOLEAN :
         confirms' = [confirms EXCEPT ![i] =
             IF password_error
             THEN ConfirmRespond(422, "Invalid password")
             ELSE [confirms[i] EXCEPT !.pc = "select_user", !.token = tok,
                                      !.new_password = pw, !.now_utc = now]]
    /\ UNCHANGED <<market, characters, inventories, orders, events, req,
                   users, now, issued, creates>>

\* SELECT user_id, email, reset_token_expires FROM users WHERE reset_token=$1, and
\* the token check
ConfirmSelect(i) ==
    /\ confirms[i].pc = "select_user"
    /\ LET found == {u \in Users : users[u].reset_token = confirms[i].token}
           user == CHOOSE u \in found : TRUE
       IN confirms' = [confirms EXCEPT ![i] =
              IF \/ found = {}
                 \/ users[user].reset_token_expires = Null
                 \/ users[user].reset_token_expires < confirms[i].now_utc
              THEN ConfirmRespond(400, "Invalid or expired reset token")
              ELSE [confirms[i] EXCEPT !.pc = "update_password", !.user_id = user]]
    /\ UNCHANGED <<market, characters, inventories, orders, events, req,
                   users, now, issued, creates>>

\* faulty variant: the UPDATE clears the token and leaves password_hash as it is
KeepPasswordHash(row, pw) ==
    [row EXCEPT !.reset_token = NoResetToken, !.reset_token_expires = Null]

\* UPDATE users SET password_hash=$1, reset_token=NULL, reset_token_expires=NULL
ResetPasswordRow(row, pw) ==
    [row EXCEPT !.password_hash = HashPassword(pw),
                !.reset_token = NoResetToken, !.reset_token_expires = Null]

\* the UPDATE ... WHERE user_id=$2 of confirm_password_reset, and the answer
ConfirmUpdate(i) ==
    /\ confirms[i].pc = "update_password"
    /\ users' = [users EXCEPT ![confirms[i].user_id] =
                    ResetPasswordRow(@, confirms[i].new_password)]
    /\ confirms' = [confirms EXCEPT ![i] = ConfirmRespond(200, "Password has been reset.")]
    /\ UNCHANGED <<market, characters, inventories, orders, events, req,
                   now, issued, creates>>

\* the status login answers for an email and a password
LoginStatus(e, pw) ==
    IF e \notin Users \/ ~VerifyPassword(pw, users[e].password_hash) THEN 401 ELSE 200

\* login: SELECT ... FROM users WHERE email=$1, the password check, and on success
\* UPDATE users SET last_login=$1
Login(e, pw) ==
    /\ users' = IF LoginStatus(e, pw) = 200
                THEN [users EXCEPT ![e].last_login = now]
                ELSE users
    /\ UNCHANGED <<market, characters, inventories, orders, events, req,
                   now, issued, confirms, creates>>

NextAuth ==
    \/ Tick
    \/ \E e \in Emails : RequestPasswordReset(e)
    \/ \E i \in Confirms : StartConfirm(i)
    \/ \E i \in Confirms : ConfirmSelect(i)
    \/ \E i \in Confirms : ConfirmUpdate(i)
    \/ \E e \in Emails, pw \in Passwords : Login(e, pw)

\* the account requests next to no purchase
SpecAuth == Init /\ [][NextAuth]_vars

(* ======================= properties of the purchase ===================== *)
Tables == <<market, characters, inventories, orders>>

OrderTokens == {t \in Tokens : orders[t].present}

\* units of an item debited from its stock rows since the seed
StockDebited(it) ==
    SumOver({k \in MarketKeys : k[2] = it},
            [k \in MarketKeys |-> SeedQty - market[k].qty_available])

\* units of an item recorded on the order rows
OrderedQuantity(it) ==
    SumOver({t \in OrderTokens : orders[t].item_id = it},
            [t \in Tokens |-> orders[t].quantity])

FreshResponses(t) ==
    {i \in Reqs : /\ req[i].pc = "done" /\ req[i].status = 200
                  /\ req[i].order_id = t /\ ~req[i].duplicate}

\* C1: whatever the interleaving of the market_buy calls that carry a token, the
\* token has one Completed order and one set of ledger mutations: every stock row
\* is debited by exactly the quantities of the order rows of its item.
C1_LedgerMutatedOncePerToken ==
    /\ \A t \in OrderTokens : orders[t].completed
    /\ \A it \in Items : StockDebited(it) = OrderedQuantity(it)

\* C2: among the successful calls that carry one token exactly one answers
\* duplicate=false; a call that lost the race for the order row answers duplicate=true.
C2_OneFreshResponsePerToken ==
    \A t \in Tokens : Cardinality(FreshResponses(t)) <= 1

\* C3: qty_available of every market row is >= 0 in every reachable state.
C3_NoNegativeStock ==
    \A k \in MarketKeys : market[k].qty_available >= 0

\* C3 witness: two purchases were answered as fresh and a stock row is drained to 0.
C3_Witness ==
    /\ \E k \in MarketKeys : market[k].qty_available = 0
    /\ \E i, j \in Reqs : /\ i # j
                          /\ req[i].pc = "done" /\ req[i].status = 200 /\ ~req[i].duplicate
                          /\ req[j].pc = "done" /\ req[j].status = 200 /\ ~req[j].duplicate

\* C4: the money of every character row is >= 0 in every reachable state, also of
\* the rows that a purchase debits without having locked and validated them.
C4_NoNegativeBalance ==
    \A c \in CharIds : Alive(c) => characters[c].money >= 0

\* C4 witness: a user has two characters, and the later one, which is never the row
\* locked and validated, has been debited down to less than the price of a unit.
C4_Witness ==
    \E u \in Users : \E c \in CharsOf(u) :
        /\ c # FirstChar(u)
        /\ characters[c].money < DefaultMoney
        /\ characters[c].money < SeedPrice * 2

\* money debited from the character rows since their creation
WalletDebited ==
    SumOver({c \in CharIds : Alive(c)}, [c \in CharIds |-> DefaultMoney - characters[c].money])

OrderedPrice == SumOver(OrderTokens, [t \in Tokens |-> orders[t].price])

InventoryIndexes == 1..Len(inventories)
InventoryCredited ==
    SumOver(InventoryIndexes, [n \in InventoryIndexes |-> inventories[n].quantity])

NoCharacterDeleted == \A c \in CharIds : ~characters[c].deleted

\* C5: conservation: the quantity debited from stock equals the sum of quantity over
\* the order rows and, as long as no character row (with its inventory rows) was
\* deleted, so do the quantity credited to inventories, and the money debited from
\* all wallets equals the sum of price over the order rows.
C5_Conservation ==
    /\ \A it \in Items : StockDebited(it) = OrderedQuantity(it)
    /\ NoCharacterDeleted =>
           /\ WalletDebited = OrderedPrice
           /\ InventoryCredited = SumOver(OrderTokens, [t \in Tokens |-> orders[t].quantity])

\* i cannot execute its next statement before j ends its transaction
WaitsFor(i, j) ==
    /\ i # j
    /\ LET r == req[i] IN
       \/ r.pc = "lock_stock" /\ HoldsStock(j, Key(r))
       \/ r.pc = "lock_wallet" /\ HoldsChar(j, FirstChar(r.user_id))
       \/ r.pc = "insert_order" /\ HoldsToken(j, r.x_request_id)
       \/ r.pc = "debit_wallet" /\ \E c \in DebitRows(r.user_id) : HoldsChar(j, c)
       \/ r.pc = "debit_stock" /\ HoldsStock(j, Key(r))
       \/ r.pc = "complete" /\ ~r.w_order /\ HoldsOrderRow(j, r.x_request_id)

\* a set of transactions each of which waits for another one of the set
Deadlocked(S) == S # {} /\ \A i \in S : \E j \in S : WaitsFor(i, j)

\* C6: deadlock freedom: in no reachable state is there a set of transactions each
\* waiting for a row lock or a unique-key insert held by another of them (a price
\* update of process_market_event holds no lock while it waits, so it is in no cycle).
C6_NoDeadlock == \A S \in SUBSET Reqs : ~Deadlocked(S)

\* C6 witness: a transaction that holds its stock and wallet locks waits for the
\* in-flight order insert of another transaction that carries the same token.
C6_Witness ==
    \E i, j \in Reqs : /\ WaitsFor(i, j)
                       /\ req[i].pc = "insert_order"
                       /\ req[j].pc \in {"debit_wallet", "debit_stock"}
                       /\ req[i].user_id # req[j].user_id

\* C7: a market_buy whose token has a committed order leaves the lookup answering
\* duplicate=true with that token as order_id, and writes nothing, whatever the stock
\* and the balances are; the answer is decided by the orders table alone.
C7_ReplayChangesNothing ==
    [][\A i \in Reqs :
          (/\ req[i].pc = "lookup"
           /\ orders[req[i].x_request_id].present
           /\ req'[i].pc # "lookup")
          => /\ UNCHANGED Tables
             /\ req'[i].pc = "done"
             /\ \/ req'[i].status = 500
                \/ /\ req'[i].status = 200
                   /\ req'[i].duplicate
                   /\ req'[i].order_id = req[i].x_request_id]_vars

\* C7 witness: a duplicate answer for the token of a Completed order whose item is
\* sold out, next to the fresh answer of the purchase that created the order.
C7_Witness ==
    \E i, j \in Reqs :
        /\ req[i].pc = "done" /\ req[i].status = 200 /\ req[i].duplicate
        /\ req[j].pc = "done" /\ req[j].status = 200 /\ ~req[j].duplicate
        /\ req[i].order_id = req[j].order_id
        /\ orders[req[i].order_id].completed
        /\ \A s \in Settlements :
               market[<<s, orders[req[i].order_id].item_id>>].qty_available = 0
        /\ Len(inventories) = 1

\* C8: purchases that contend for a stock row or a wallet are serialized by the row
\* locks: a locked row has one holder, what a transaction read under its locks (stock,
\* unit price, sufficient funds) is still the committed value while it holds them, and
\* the orders of different tokens for one item never total more than the seeded stock.
C8_SerializedByRowLocks ==
    /\ \A i, j \in Reqs : \A k \in MarketKeys :
           (HoldsStock(i, k) /\ HoldsStock(j, k)) => i = j
    /\ \A i, j \in Reqs : \A c \in CharIds :
           (HoldsChar(i, c) /\ HoldsChar(j, c)) => i = j
    /\ \A i \in Reqs : req[i].pc \in StockPcs =>
           /\ market[Key(req[i])].qty_available = req[i].stock_qty
           /\ market[Key(req[i])].current_price * req[i].quantity = req[i].price
           /\ req[i].quantity <= market[Key(req[i])].qty_available
    /\ \A i \in Reqs : req[i].pc \in WalletPcs =>
           /\ Alive(req[i].wallet)
           /\ characters[req[i].wallet].money >= req[i].price
    /\ \A t1, t2 \in OrderTokens :
           (t1 # t2 /\ orders[t1].item_id = orders[t2].item_id)
           => orders[t1].quantity + orders[t2].quantity <= SeedQty

\* C8 witness: a purchase waits for the stock row held by a purchase with another
\* token, and their quantities together exceed the available stock.
C8_Witness ==
    \E i, j \in Reqs :
        /\ WaitsFor(i, j)
        /\ req[i].pc = "lock_stock"
        /\ req[j].pc = "commit"
        /\ req[i].x_request_id # req[j].x_request_id
        /\ req[i].quantity + req[j].quantity > market[Key(req[i])].qty_available

TxnPcs == {"lock_stock"} \cup StockPcs

\* C9: a purchase that fails after its transaction was opened, by a business-rule
\* rejection or by a store fault at any statement, changes no committed row.
C9_FailedPurchaseWritesNothing ==
    [][\A i \in Reqs :
          (req[i].pc \in TxnPcs /\ req'[i].pc = "done" /\ req'[i].status # 200)
          => UNCHANGED Tables]_vars

\* C9 witness: one purchase was rejected for insufficient funds and one ended by a
\* store fault, and no order, stock debit, wallet debit or inventory row exists.
C9_Witness ==
    /\ \E i, j \in Reqs : /\ req[i].detail = "Insufficient funds"
                          /\ req[j].status = 500
    /\ OrderTokens = {}
    /\ inventories = <<>>
    /\ \A k \in MarketKeys : market[k].qty_available = SeedQty
    /\ \A c \in CharIds : characters[c].money = DefaultMoney

\* C10: a first-time purchase (its own order row inserted) of quantity q at the locked
\* unit price p answers order_id = token, duplicate=false, and its commit lowers the
\* stock by q and the buyer's locked balance by p*q, appends an inventory row of q and
\* full durability, and leaves the order row (token, buyer, item, q, p*q) Completed;
\* a purchase is rejected under lock only when stock or funds are insufficient.
C10_FirstTimePurchase ==
    [][\A i \in Reqs :
          LET r == req[i]
              k == Key(r)
              p == market[k].current_price
          IN /\ (r.pc = "commit" /\ r.w_order /\ req'[i].pc = "done" /\ req'[i].status = 200)
                => /\ req'[i].order_id = r.x_request_id
                   /\ ~req'[i].duplicate
                   /\ market'[k].qty_available = market[k].qty_available - r.quantity
                   /\ r.wallet = FirstChar(r.user_id)
                   /\ characters'[r.wallet].money = characters[r.wallet].money - p * r.quantity
                   /\ inventories' = Append(inventories,
                          [character_id |-> r.wallet, item_id |-> r.item_id,
                           quantity |-> r.quantity, durability_current |-> 100])
                   /\ orders'[r.x_request_id] =
                          [user_id |-> r.user_id, item_id |-> r.item_id,
                           quantity |-> r.quantity, price |-> p * r.quantity,
                           completed |-> TRUE, present |-> TRUE]
             /\ (r.pc = "lock_stock" /\ req'[i].pc = "done" /\ req'[i].status = 400)
                => market[k].qty_available < r.quantity
             /\ (r.pc = "lock_wallet" /\ req'[i].pc = "done" /\ req'[i].status = 400)
                => \/ FirstChar(r.user_id) = NoChar
                   \/ characters[FirstChar(r.user_id)].money < p * r.quantity]_vars

\* C10 witness: a purchase of 2 units at the seed price was answered as fresh: its
\* order row is Completed with price 2 * SeedPrice, the stock row is 2 lower, the
\* buyer's character is 2 * SeedPrice lower and the inventory holds the 2 units.
C10_Witness ==
    \E i \in Reqs : \E s \in Settlements :
        /\ req[i].pc = "done" /\ req[i].status = 200 /\ ~req[i].duplicate
        /\ LET o == orders[req[i].order_id]
               w == FirstChar(o.user_id)
           IN /\ o.present /\ o.completed
              /\ o.quantity = 2 /\ o.price = 2 * SeedPrice
              /\ market[<<s, o.item_id>>].qty_available = SeedQty - 2
              /\ w # NoChar
              /\ characters[w].money = DefaultMoney - 2 * SeedPrice
              /\ inventories = <<[character_id |-> w, item_id |-> o.item_id,
                                  quantity |-> 2, durability_current |-> 100]>>

\* C11: a purchase whose quantity exceeds the qty_available read under the stock lock
\* is answered 400 "Out of stock"; the step changes no stock, balance, inventory or
\* order row, so the token has no order because of it and a retry is looked up afresh.
C11_OutOfStockRejected ==
    [][\A i \in Reqs :
          LET r == req[i] IN
          (/\ r.pc = "lock_stock"
           /\ req'[i].pc # "lock_stock"
           /\ req'[i].status # 500
           /\ market[Key(r)].qty_available < r.quantity)
          => /\ req'[i].pc = "done"
             /\ req'[i].status = 400
             /\ req'[i].detail = "Out of stock"
             /\ ~req'[i].duplicate
             /\ UNCHANGED Tables
             /\ orders'[r.x_request_id].present = orders[r.x_request_id].present]_vars

\* C11 witness: one purchase was answered as fresh and left its single order and
\* inventory row, and another request was rejected as out of stock.
C11_Witness ==
    /\ \E i, j \in Reqs : /\ req[i].pc = "done" /\ req[i].detail = "Out of stock"
                          /\ req[j].pc = "done" /\ req[j].status = 200 /\ ~req[j].duplicate
    /\ Cardinality(OrderTokens) = 1
    /\ Len(inventories) = 1

\* C12: a purchase whose total price (quantity times the unit price that is locked)
\* exceeds the balance read under the wallet lock is answered 400 "Insufficient funds";
\* the abort releases the stock lock and changes no stock, balance, inventory or order.
C12_InsufficientFundsRejected ==
    [][\A i \in Reqs :
          LET r == req[i]
              w == FirstChar(r.user_id)
          IN (/\ r.pc = "lock_wallet"
              /\ req'[i].pc # "lock_wallet"
              /\ req'[i].status # 500
              /\ w # NoChar
              /\ characters[w].money < market[Key(r)].current_price * r.quantity)
             => /\ req'[i].pc = "done"
                /\ req'[i].status = 400
                /\ req'[i].detail = "Insufficient funds"
                /\ ~req'[i].duplicate
                /\ HoldsStock(i, Key(r))
                /\ \A k \in MarketKeys : ~HoldsStock(i, k)'
                /\ UNCHANGED Tables]_vars

\* C12 witness: a request was rejected for insufficient funds although every user
\* has a character and no character was ever deleted, so it was the balance that
\* fell short of the price.
C12_Witness ==
    /\ \E i \in Reqs : req[i].pc = "done" /\ req[i].detail = "Insufficient funds"
    /\ NoCharacterDeleted
    /\ \A u \in Users : CharsOf(u) # {}

\* C13: a token has at most one order row (no transaction inserts a row for a token
\* that has a committed row, and no two transactions hold an inserted row of one
\* token), and no field of a Completed order row is changed by any later step,
\* including the steps of a request that carries the token again.
C13_CompletedOrderImmutable ==
    [][/\ \A i \in Reqs : req[i].w_order => ~orders[req[i].x_request_id].present
       /\ \A i, j \in Reqs : \A t \in Tokens :
              (HoldsToken(i, t) /\ HoldsToken(j, t)) => i = j
       /\ \A t \in Tokens :
              (orders[t].present /\ orders[t].completed) => orders'[t] = orders[t]]_vars

\* C13 witness: a transaction of another user that carries the token of a Completed
\* order has run all its statements and stands before its commit.
C13_Witness ==
    \E i \in Reqs :
        /\ req[i].pc = "commit"
        /\ ~req[i].w_order
        /\ orders[req[i].x_request_id].present
        /\ orders[req[i].x_request_id].completed
        /\ orders[req[i].x_request_id].user_id # req[i].user_id

\* C17: lock order: a transaction that takes a wallet row lock holds its stock row
\* lock already, and a transaction that takes a stock row lock holds no wallet row
\* lock, before or after the step.
C17_StockLockBeforeWalletLock ==
    [][\A i \in Reqs :
          /\ (/\ \A c \in CharIds : ~HoldsChar(i, c)
              /\ \E c \in CharIds : HoldsChar(i, c)')
             => HoldsStock(i, Key(req[i])) /\ HoldsStock(i, Key(req[i]))'
          /\ \A k \in MarketKeys :
                (~HoldsStock(i, k) /\ HoldsStock(i, k)')
                => \A c \in CharIds : ~HoldsChar(i, c) /\ ~HoldsChar(i, c)']_vars

\* C17 witness: a transaction holds a stock row and waits for the wallet row of
\* another transaction of the same user, which holds another stock row.
C17_Witness ==
    \E i, j \in Reqs :
        /\ req[i].pc = "lock_wallet"
        /\ req[j].pc \in WalletPcs
        /\ WaitsFor(i, j)
        /\ Key(req[i]) # Key(req[j])

\* C18: the price debited and recorded by a purchase is its quantity times the unit
\* price read under the stock lock, and that unit price is the committed price when
\* the purchase commits: no step changes the price of a market row while a
\* transaction has it locked, so no market event takes effect in between.
C18_PriceStableUnderLock ==
    [][/\ \A i \in Reqs : \A k \in MarketKeys :
              HoldsStock(i, k) => market'[k].current_price = market[k].current_price
       /\ \A i \in Reqs :
              LET r == req[i]
                  p == market[Key(r)].current_price
              IN (r.pc = "commit" /\ req'[i].pc = "done" /\ req'[i].status = 200)
                 => /\ r.price = p * r.quantity
                    /\ characters'[r.wallet].money = characters[r.wallet].money - r.price
                    /\ r.w_order => orders'[r.x_request_id].price = p * r.quantity
                    /\ market'[Key(r)].current_price = p]_vars

\* C18 witness: a market event has changed the price of a row, and a purchase of
\* that row stands before its commit with the changed price as the price it debits.
C18_Witness ==
    \E i \in Reqs : \E h \in NewPriceHalves :
        /\ events = 1
        /\ req[i].pc = "commit"
        /\ req[i].quantity = 1
        /\ market[Key(req[i])].current_price = IntTrunc(h)
        /\ IntTrunc(h) # SeedPrice
        /\ req[i].price = IntTrunc(h)

\* C19: a market_buy whose token has a committed order can always take its lookup
\* step, whatever row locks other transactions hold, and the step ends the request:
\* it opens no transaction, takes no row lock and inserts no order row.
C19_ReplayNeedsNoLock ==
    [][\A i \in Reqs :
          (req[i].pc = "lookup" /\ orders[req[i].x_request_id].present)
          => /\ ENABLED Lookup(i)
             /\ req'[i].pc \notin TxnPcs
             /\ \A k \in MarketKeys : ~HoldsStock(i, k)'
             /\ \A c \in CharIds : ~HoldsChar(i, c)'
             /\ \A t \in Tokens : ~HoldsToken(i, t)']_vars

\* C19 witness: the token of the Completed order of user 1 was answered as duplicate
\* while another transaction of user 1 for the same market row stands before its
\* commit with the stock row and the wallet row locked.
C19_Witness ==
    \E i, j \in Reqs :
        /\ req[i].pc = "done" /\ req[i].status = 200 /\ req[i].duplicate
        /\ req[i].order_id = 1
        /\ req[j].pc = "commit"
        /\ req[j].user_id = orders[1].user_id
        /\ req[j].item_id = orders[1].item_id

\* C20: the commit of a successful purchase lowers the money of one character, the
\* buyer's earliest-created one that the transaction locked, by the total price and
\* leaves every other character row as it was, the buyer's other characters included.
C20_OneWalletDebited ==
    [][\A i \in Reqs :
          LET r == req[i] IN
          (r.pc = "commit" /\ req'[i].pc = "done" /\ req'[i].status = 200)
          => /\ r.wallet = FirstChar(r.user_id)
             /\ characters'[r.wallet].money = characters[r.wallet].money - r.price
             /\ \A c \in CharIds \ {r.wallet} : characters'[c] = characters[c]]_vars

\* the tables are as the registration of the users left them: no purchase yet, and
\* the characters are the starter characters of register (src/api) or none
\* (src/capstone)
JustRegistered ==
    /\ OrderTokens = {}
    /\ inventories = <<>>
    /\ \/ characters = <<>>
       \/ characters = <<[user_id |-> 1, money |-> DefaultMoney, deleted |-> FALSE],
                         [user_id |-> 2, money |-> DefaultMoney, deleted |-> FALSE]>>

\* C14: right after registration a buy of one unit of an in-stock item whose price
\* the starting money covers passes the wallet check of market_buy: it is not
\* rejected for lack of a wallet.
C14_RegisteredUserCanBuy ==
    [][\A i \in Reqs :
          LET r == req[i] IN
          (/\ JustRegistered
           /\ r.pc = "lock_wallet"
           /\ r.quantity = 1
           /\ r.price <= DefaultMoney
           /\ req'[i].pc # "lock_wallet"
           /\ req'[i].status # 500)
          => req'[i].pc = "insert_order"]_vars

\* C15: a user never has more than 5 characters, whatever the interleaving of the
\* create_character requests, and a create_character that counts 5 or more
\* characters is answered 400 "Maximum 5 characters per account" and inserts nothing.
C15_AtMostFiveCharacters ==
    [][/\ \A u \in Users : Cardinality(CharsOf(u))' <= CharLimit
       /\ \A i \in Creates :
              (/\ creates[i].pc = "count"
               /\ creates'[i].pc # "count"
               /\ Cardinality(CharsOf(creates[i].user_id)) >= CharLimit)
              => /\ creates'[i].status = 400
                 /\ creates'[i].detail = "Maximum 5 characters per account"
                 /\ characters' = characters]_vars

\* the step is the UPDATE of a confirm_password_reset for user u with password pw
ConfirmsReset(u, pw) ==
    \E i \in Confirms : /\ confirms[i].pc = "update_password"
                        /\ confirms[i].user_id = u
                        /\ confirms[i].new_password = pw
                        /\ confirms'[i].pc = "done"
                        /\ confirms'[i].status = 200

\* C16 as stated: when a confirm_password_reset succeeds, login with the password
\* that was valid before is answered 401 and login with the new password 200, and
\* what login answers for the user changes at no step but a confirmed reset.
C16_OldPasswordRejected ==
    [][\A u \in Users :
          /\ \A pw \in Passwords :
                 ConfirmsReset(u, pw)
                 => /\ LoginStatus(u, pw)' = 200
                    /\ \A old \in Passwords :
                           LoginStatus(u, old) = 200 => LoginStatus(u, old)' = 401
          /\ (~ \E pw \in Passwords : ConfirmsReset(u, pw))
             => \A pw \in Passwords : LoginStatus(u, pw)' = LoginStatus(u, pw)]_vars

\* C16 amended: when a confirm_password_reset succeeds, login with the new password
\* is answered 200 and login with every other password, the old one included when
\* it differs from the new one, 401; what login answers for the user changes at no
\* step but a confirmed reset.
C16_NewPasswordReplacesOld ==
    [][\A u \in Users :
          /\ \A pw \in Passwords :
                 ConfirmsReset(u, pw)
                 => /\ LoginStatus(u, pw)' = 200
                    /\ \A other \in Passwords \ {pw} : LoginStatus(u, other)' = 401
          /\ (~ \E pw \in Passwords : ConfirmsReset(u, pw))
             => \A pw \in Passwords : LoginStatus(u, pw)' = LoginStatus(u, pw)]_vars

\* C16 witness: a reset was confirmed, and for a user whose token is used up login
\* answers 401 for the password given at registration and 200 for another one.
C16_Witness ==
    /\ \E i \in Confirms : confirms[i].pc = "done" /\ confirms[i].status = 200
    /\ \E u \in Users : \E pw \in Passwords \ {InitialPassword} :
           /\ users[u].reset_token = NoResetToken
           /\ LoginStatus(u, InitialPassword) = 401
           /\ LoginStatus(u, pw) = 200
           /\ users[u].last_login = now

\* C21: a purchase transaction that meets a store conflict is started again from the
\* opening of the transaction instead of being answered; every transaction of the
\* program is a first attempt, so none is answered with the store failure.
C21_ConflictRetried ==
    [][\A i \in Reqs :
          (req[i].pc \in TxnPcs /\ req'[i].pc = "done") => req'[i].status # 500]_vars

\* some ledger write of the transaction is executed
LedgerWritten(r) == r.w_money # {} \/ r.w_stock \/ r.w_inv

\* all ledger writes of the transaction are executed
LedgerComplete(r) == r.w_money # {} /\ r.w_stock /\ r.w_inv

\* C22: in a purchase transaction the order INSERT (the row is Pending) is executed
\* before any ledger write, the order is marked Completed only after the wallet
\* debit, the stock debit and the inventory credit of the same transaction, and no
\* committed order row is ever deleted.
C22_PendingThenLedgerThenCompleted ==
    [][/\ \A i \in Reqs :
              /\ (~req[i].w_order /\ req'[i].w_order)
                 => ~LedgerWritten(req'[i]) /\ ~req'[i].w_completed
              /\ (~LedgerWritten(req[i]) /\ LedgerWritten(req'[i]))
                 => /\ req[i].pc = "debit_wallet"
                    /\ req[i].w_order \/ orders[req[i].x_request_id].present
                    /\ ~req'[i].w_completed
              /\ (~req[i].w_completed /\ req'[i].w_completed)
                 => LedgerComplete(req[i]) /\ LedgerComplete(req'[i])
       /\ \A t \in Tokens : orders[t].present => orders'[t].present]_vars

\* C22 witness: a transaction that inserted its order row stands before its commit
\* with the three ledger writes executed and the order marked Completed.
C22_Witness ==
    \E i \in Reqs :
        /\ req[i].pc = "commit"
        /\ req[i].w_order
        /\ LedgerComplete(req[i])
        /\ req[i].w_completed
        /\ ~orders[req[i].x_request_id].present

C24_UnknownPairIsInvalidInput ==
    [][\A i \in Reqs :
          /\ req'[i].pc \in TxnPcs => Key(req'[i]) \in DOMAIN market'
          /\ (/\ req[i].pc = "lock_stock"
              /\ Key(req[i]) \notin DOMAIN market
              /\ req'[i].pc = "done")
             => req'[i].detail # "Out of stock"]_vars

CompletedOrders == {t \in OrderTokens : orders[t].completed}

\* C25: a request that is rejected or answered as duplicate appends no inventory
\* row, a successful purchase appends one row (locked character, item, quantity,
\* durability 100), and, as long as no character was deleted with its rows, the
\* inventory rows are as many as the Completed orders.
C25_OneInventoryRowPerOrder ==
    [][/\ \A i \in Reqs :
              /\ (req'[i].pc = "done" /\ req[i].pc # "done"
                  /\ (req'[i].status # 200 \/ req'[i].duplicate))
                 => inventories' = inventories
              /\ (req[i].pc = "commit" /\ req'[i].pc = "done" /\ req'[i].status = 200)
                 => inventories' = Append(inventories,
                        [character_id |-> FirstChar(req[i].user_id),
                         item_id |-> req[i].item_id, quantity |-> req[i].quantity,
                         durability_current |-> 100])
       /\ NoCharacterDeleted' => Len(inventories') = Cardinality(CompletedOrders')]_vars

\* C27: every committed order row is Completed, and it becomes visible together with
\* the ledger writes of its transaction: the step that commits the row debits the
\* stock and the wallet and appends the inventory row.
C27_CommittedOrdersCompleted ==
    [][\A t \in Tokens :
          /\ orders'[t].present => orders'[t].completed
          /\ (~orders[t].present /\ orders'[t].present)
             => \E i \in Reqs :
                    /\ req[i].pc = "commit" /\ req[i].x_request_id = t
                    /\ market'[Key(req[i])].qty_available =
                           market[Key(req[i])].qty_available - orders'[t].quantity
                    /\ characters'[req[i].wallet].money =
                           characters[req[i].wallet].money - orders'[t].price
                    /\ Len(inventories') = Len(inventories) + 1]_vars

\* C27 witness: the lookup of a later request found the order of a committed
\* purchase: a duplicate answer next to a Completed order, a debited stock row and
\* an inventory row.
C27_Witness ==
    \E i \in Reqs : \E k \in MarketKeys :
        /\ req[i].pc = "done" /\ req[i].status = 200 /\ req[i].duplicate
        /\ orders[req[i].order_id].present
        /\ orders[req[i].order_id].completed
        /\ k[2] = orders[req[i].order_id].item_id
        /\ market[k].qty_available = SeedQty - orders[req[i].order_id].quantity
        /\ Len(inventories) = 1
        /\ \A j \in Reqs : req[j].pc = "done"

\* C28: whenever market_buy answers duplicate=true, a committed order row of the
\* token it answers with exists, also when the answer comes from the except branch
\* around the order INSERT.
C28_DuplicateHasCommittedOrder ==
    [][\A i \in Reqs :
          (req[i].pc # "done" /\ req'[i].pc = "done" /\ req'[i].duplicate)
          => /\ req'[i].order_id # NoToken
             /\ orders'[req'[i].order_id].present]_vars

\* C29: the lookup keys on the token alone: a market_buy whose token has an order of
\* another buyer, item or quantity is answered duplicate=true with the token as
\* order_id, and the step writes nothing.
C29_LookupKeysOnTokenAlone ==
    [][\A i \in Reqs :
          LET r == req[i]
              o == orders[r.x_request_id]
          IN (/\ r.pc = "lookup"
              /\ o.present
              /\ o.user_id # r.user_id \/ o.item_id # r.item_id \/ o.quantity # r.quantity
              /\ req'[i].pc # "lookup"
              /\ req'[i].status # 500)
             => /\ req'[i].pc = "done"
                /\ req'[i].status = 200
                /\ req'[i].duplicate
                /\ req'[i].order_id = r.x_request_id
                /\ UNCHANGED Tables]_vars

\* C29 witness: a request stands at the lookup with the token of the Completed order
\* of another buyer, for another item and another quantity.
C29_Witness ==
    \E i \in Reqs :
        LET r == req[i]
            o == orders[r.x_request_id]
        IN /\ r.pc = "lookup"
           /\ o.present /\ o.completed
           /\ o.user_id # r.user_id /\ o.item_id # r.item_id /\ o.quantity # r.quantity

C26_EveryTransactionEnds ==
    /\ \A i \in Reqs : (req[i].pc \in TxnPcs) ~> (req[i].pc = "done")
    /\ [](\A i \in Reqs :
             /\ req[i].pc = "done"
                => /\ \A k \in MarketKeys : ~HoldsStock(i, k)
                   /\ \A c \in CharIds : ~HoldsChar(i, c)
                   /\ \A t \in Tokens : ~HoldsToken(i, t) /\ ~HoldsOrderRow(i, t)
             /\ (req[i].pc \notin {"idle", "done"} /\ ~ENABLED Proceed(i))
                => req[i].pc \in TxnPcs /\ \E j \in Reqs : WaitsFor(i, j))

\* C26 witness: both requests have reached their answer: one bought the last units
\* of a stock row, and the other, which asked for the same row, was rejected as out
\* of stock.
C26_Witness ==
    \E i, j \in Reqs :
        /\ i # j
        /\ req[i].pc = "done" /\ req[i].status = 200 /\ ~req[i].duplicate
        /\ req[j].pc = "done" /\ req[j].detail = "Out of stock"
        /\ \E k \in MarketKeys : market[k].qty_available = 0

====
